---- MODULE Spec2Model ----
(***************************************************************************)
(* A model of the in-memory record store of src/main.py: the two           *)
(* dictionaries users_db and items_db and the request handlers that read   *)
(* and write them.  One action per handler; a request body is validated    *)
(* against its pydantic schema before the handler body runs.  Spec sends   *)
(* the requests one at a time, SpecLong does so in longer runs with fewer  *)
(* kinds of request, SpecConcurrent holds requests in flight before their  *)
(* handlers run.  SpecPush is the program of src/auto_push.py.             *)
(*                                                                         *)
(* Encoding of values.                                                     *)
(*   - An Optional value is a sequence of length at most one: None is <<>> *)
(*     and a value v is Some(v) = <<v>>.                                   *)
(*   - A string is a sequence of one-character strings.                    *)
(*   - A request body is a function from the field names that the body     *)
(*     carries to Optional values: a field that is absent from the body is *)
(*     absent from the DOMAIN, a field sent as null maps to None.          *)
(*   - A float amount (price) is an integer number of hundredths.          *)
(*   - A dict is a sequence of [key, val] entries in insertion order.      *)
(***************************************************************************)
EXTENDS Integers, Sequences, FiniteSets, TLC

VARIABLES
    users_db,       \* the dict users_db
    items_db,       \* the dict items_db
    uuid_ctr,       \* how many values uuid4() has produced
    clock,          \* the instant datetime.now() reads
    status_code,    \* the status code of the last response
    issued_users,   \* history: the ids create_user returned, oldest first
    issued_items,   \* history: the ids create_item returned, oldest first
    deleted_users,  \* history: the ids delete_user removed
    deleted_items,  \* history: the ids delete_item removed
    inflight,       \* the requests the server has received and not yet handled
    answers,        \* history: the requests handled from inflight, oldest first
    pc,             \* auto_push.py: the statement main() is at
    commit_message, \* auto_push.py: commit_message
    commit_result,  \* auto_push.py: commit_result.returncode
    status_result,  \* auto_push.py: status_result.stdout.strip()
    ran,            \* auto_push.py: the commands subprocess.run was given, in order
    printed,        \* auto_push.py: the lines printed, in order
    exit_status     \* auto_push.py: the exit status of the process

\* the state of the API of main.py
api_vars == <<users_db, items_db, uuid_ctr, clock, status_code,
              issued_users, issued_items, deleted_users, deleted_items>>
\* the requests in flight
server_vars == <<inflight, answers>>
\* the state of auto_push.py
push_vars == <<pc, commit_message, commit_result, status_result, ran, printed, exit_status>>

vars == <<api_vars, server_vars, push_vars>>

(***************************************************************************)
(* Bounds of the model.                                                    *)
(***************************************************************************)
\* the number of identifiers uuid4 hands out in one run
MaxUuid == 2
\* the same in the runs that send one kind of body to each route
MaxLongUuid == 3
\* the number of requests in flight at a time
MaxInflight == 3
\* the number of words on the command line of auto_push.py
MaxArgs == 2

(***************************************************************************)
(* Program constants.                                                      *)
(***************************************************************************)
NameMinLen == 1
NameMaxLen == 100
AgeMin == 0
AgeMax == 150
TitleMinLen == 1
TitleMaxLen == 200
PriceGt == 0
QuantityGe == 0
QuantityDefault == 1
SkipDefault == 0
SkipGe == 0
LimitDefault == 10
LimitGe == 1
LimitLe == 100
PriceFilterGe == 0
HTTP_201_CREATED == 201
HTTP_204_NO_CONTENT == 204
HTTP_404_NOT_FOUND == 404

(***************************************************************************)
(* Optional values and strings.                                            *)
(***************************************************************************)
None == <<>>
Some(v) == <<v>>
IsNone(o) == Len(o) = 0
Val(o) == o[1]

Min(a, b) == IF a <= b THEN a ELSE b
Max(a, b) == IF a >= b THEN a ELSE b

\* str.lower() on the characters the model uses
LowerChar(c) ==
    CASE c = "A" -> "a"
      [] c = "B" -> "b"
      [] c = "C" -> "c"
      [] OTHER -> c

Lower(s) == [i \in 1..Len(s) |-> LowerChar(s[i])]

\* Python's  a in b  on strings: a is a contiguous substring of b
Contains(b, a) ==
    \E i \in 0..(Len(b) - Len(a)) : \A j \in 1..Len(a) : b[i + j] = a[j]

\* a string of n characters
Chars(n) == [i \in 1..n |-> "x"]

(***************************************************************************)
(* Python dict: insertion-ordered mapping.                                 *)
(***************************************************************************)
DictKeys(d) == {d[i].key : i \in 1..Len(d)}

DictHas(d, k) == \E i \in 1..Len(d) : d[i].key = k

DictIndex(d, k) == CHOOSE i \in 1..Len(d) : d[i].key = k

DictGet(d, k) == d[DictIndex(d, k)].val

\* DictSet that puts the key last whether or not the dict holds it
DictSetLast(d, k, v) ==
    LET NotK(e) == e.key # k
    IN  Append(SelectSeq(d, NotK), [key |-> k, val |-> v])

\* d[k] = v: an existing key keeps its position, a new key goes last
DictSet(d, k, v) ==
    IF DictHas(d, k)
    THEN [d EXCEPT ![DictIndex(d, k)] = [key |-> k, val |-> v]]
    ELSE Append(d, [key |-> k, val |-> v])

\* del d[k]
DictDel(d, k) ==
    LET i == DictIndex(d, k)
    IN  SubSeq(d, 1, i - 1) \o SubSeq(d, i + 1, Len(d))

\* list(d.values())
DictValues(d) == [i \in 1..Len(d) |-> d[i].val]

\* Slice with the stop index taken as the last index returned instead of the first left out
SliceInclusive(s, start, stop) ==
    LET lo == Min(start, Len(s))
        hi == Min(stop + 1, Len(s))
    IN  IF hi <= lo THEN <<>> ELSE [i \in 1..(hi - lo) |-> s[lo + i]]

\* Python's  s[start:stop]  for start >= 0 and stop >= 0
Slice(s, start, stop) ==
    LET lo == Min(start, Len(s))
        hi == Min(stop, Len(s))
    IN  IF hi <= lo THEN <<>> ELSE [i \in 1..(hi - lo) |-> s[lo + i]]

(***************************************************************************)
(* The pydantic schemas.                                                   *)
(***************************************************************************)
\* EmailStr: one "@", a local part, and a domain with an inner "."
IsEmail(s) ==
    /\ Cardinality({i \in 1..Len(s) : s[i] = "@"}) = 1
    /\ LET at == CHOOSE i \in 1..Len(s) : s[i] = "@"
       IN  /\ at > 1
           /\ \E i \in (at + 2)..(Len(s) - 1) : s[i] = "."
           /\ s[at + 1] # "."
           /\ s[Len(s)] # "."

\* the body carries the field with a value that is not null
HasValue(body, f) == f \in DOMAIN body /\ ~IsNone(body[f])

\* the body leaves the field out, or carries it as null
UnsetOrNull(body, f) == f \notin DOMAIN body \/ IsNone(body[f])

NameOk(s) == Len(s) >= NameMinLen /\ Len(s) <= NameMaxLen
AgeOk(n) == n >= AgeMin /\ n <= AgeMax
TitleOk(s) == Len(s) >= TitleMinLen /\ Len(s) <= TitleMaxLen
\* PriceOk with ge=0 in place of gt=0
PriceOkGe(p) == p >= PriceGt
PriceOk(p) == p > PriceGt
QuantityOk(q) == q >= QuantityGe

UserFields == {"id", "name", "email", "age", "created_at"}
UserUpdateFields == {"name", "email", "age"}
ItemFields == {"id", "title", "description", "price", "quantity", "created_at"}
ItemUpdateFields == {"title", "description", "price", "quantity"}

\* class User: does the request body validate
UserValid(body) ==
    /\ HasValue(body, "name") /\ NameOk(Val(body["name"]))
    /\ HasValue(body, "email") /\ IsEmail(Val(body["email"]))
    /\ HasValue(body, "age") /\ AgeOk(Val(body["age"]))

\* class User: the object built from a valid body
UserParse(body) ==
    [id |-> IF "id" \in DOMAIN body THEN body["id"] ELSE None,
     name |-> body["name"],
     email |-> body["email"],
     age |-> body["age"],
     created_at |-> IF "created_at" \in DOMAIN body THEN body["created_at"] ELSE None]

\* class UserUpdate: every field is Optional with the default None
UserUpdateValid(body) ==
    /\ UnsetOrNull(body, "name") \/ NameOk(Val(body["name"]))
    /\ UnsetOrNull(body, "email") \/ IsEmail(Val(body["email"]))
    /\ UnsetOrNull(body, "age") \/ AgeOk(Val(body["age"]))

\* class Item: quantity has a default and is not Optional
ItemValid(body) ==
    /\ HasValue(body, "title") /\ TitleOk(Val(body["title"]))
    /\ HasValue(body, "price") /\ PriceOk(Val(body["price"]))
    /\ "quantity" \in DOMAIN body =>
          (~IsNone(body["quantity"]) /\ QuantityOk(Val(body["quantity"])))

ItemParse(body) ==
    [id |-> IF "id" \in DOMAIN body THEN body["id"] ELSE None,
     title |-> body["title"],
     description |-> IF "description" \in DOMAIN body THEN body["description"] ELSE None,
     price |-> body["price"],
     quantity |-> IF "quantity" \in DOMAIN body THEN body["quantity"]
                  ELSE Some(QuantityDefault),
     created_at |-> IF "created_at" \in DOMAIN body THEN body["created_at"] ELSE None]

\* class ItemUpdate: every field is Optional with the default None
ItemUpdateValid(body) ==
    /\ UnsetOrNull(body, "title") \/ TitleOk(Val(body["title"]))
    /\ UnsetOrNull(body, "price") \/ PriceOk(Val(body["price"]))
    /\ UnsetOrNull(body, "quantity") \/ QuantityOk(Val(body["quantity"]))

\* ModelDumpExcludeUnset of a schema that keeps the fields it does not declare
ModelDumpWithExtras(body, fields) == body

\* model_dump(exclude_unset=True): the fields the body carried, null included
ModelDumpExcludeUnset(body, fields) ==
    [f \in (DOMAIN body) \cap fields |-> body[f]]

\* SetAttrs that skips the fields whose value is None
SetAttrsSkipNone(stored, update_data) ==
    [f \in DOMAIN stored |->
        IF f \in DOMAIN update_data /\ ~IsNone(update_data[f])
        THEN update_data[f] ELSE stored[f]]

\* for field, value in update_data.items(): setattr(stored, field, value)
SetAttrs(stored, update_data) ==
    [f \in DOMAIN stored |->
        IF f \in DOMAIN update_data THEN update_data[f] ELSE stored[f]]

(***************************************************************************)
(* Servers of values: uuid4() and datetime.now().                          *)
(***************************************************************************)
\* str(u): the text of a UUID, a non-empty string that identifies u
str(u) == <<u>>

\* an identifier computed from the number of records stored
uuid4_from_size == Len(users_db) + Len(items_db) + 1

\* uuid4(): a value the generator has not produced before in this run
uuid4 == uuid_ctr + 1

\* datetime.now(): the instant of the call; the clock advances with every record stored
Now == clock

(***************************************************************************)
(* Responses.                                                              *)
(***************************************************************************)
Response(op, id, status, body) ==
    [op |-> op, id |-> id, status |-> status, body |-> body]

\* the handler returns: the route's default status
Returns(op, id, body) == Response(op, id, 200, body)

\* FastAPI rejects the request before the handler runs (RequestValidationError)
ValidationError(op, id) == Response(op, id, 422, None)

\* raise HTTPException(status_code=status.HTTP_404_NOT_FOUND, ...)
NotFound(op, id) == Response(op, id, HTTP_404_NOT_FOUND, None)

\* an exception raised in the handler body that nothing catches
InternalError(op, id) == Response(op, id, 500, None)

(***************************************************************************)
(* The user handlers, as functions of the store and the request.           *)
(***************************************************************************)
\* CreateUser that assigns an id only to a body that carries none
CreateUserKeepsId(db, body, u, now) ==
    IF ~UserValid(body)
    THEN [db |-> db, resp |-> ValidationError("create_user", None)]
    ELSE LET given == UserParse(body)
             user == [given EXCEPT !.id = IF IsNone(given.id) THEN Some(str(u)) ELSE given.id,
                                   !.created_at = Some(now)]
         IN  [db |-> DictSet(db, Val(user.id), user),
              resp |-> Response("create_user", None, HTTP_201_CREATED, user)]

\* create_user: user.id, user.created_at, users_db[user.id] = user
CreateUser(db, body, u, now) ==
    IF ~UserValid(body)
    THEN [db |-> db, resp |-> ValidationError("create_user", None)]
    ELSE LET user == [UserParse(body) EXCEPT !.id = Some(str(u)),
                                             !.created_at = Some(now)]
         IN  [db |-> DictSet(db, Val(user.id), user),
              resp |-> Response("create_user", None, HTTP_201_CREATED, user)]

\* Query(0, ge=0) and Query(10, ge=1, le=100)
SkipValid(skip) == IsNone(skip) \/ Val(skip) >= SkipGe
LimitValid(limit) == IsNone(limit) \/ (Val(limit) >= LimitGe /\ Val(limit) <= LimitLe)
SkipOf(skip) == IF IsNone(skip) THEN SkipDefault ELSE Val(skip)
LimitOf(limit) == IF IsNone(limit) THEN LimitDefault ELSE Val(limit)

\* get_all_users
GetAllUsers(db, skip, limit) ==
    IF ~(SkipValid(skip) /\ LimitValid(limit))
    THEN ValidationError("get_all_users", None)
    ELSE LET users_list == DictValues(db)
         IN  Returns("get_all_users", None,
                     Slice(users_list, SkipOf(skip), SkipOf(skip) + LimitOf(limit)))

\* get_user
GetUser(db, user_id) ==
    IF ~DictHas(db, user_id)
    THEN NotFound("get_user", Some(user_id))
    ELSE Returns("get_user", Some(user_id), DictGet(db, user_id))

\* UpdateUser that writes the record whether or not the id is stored
UpdateUserUpsert(db, user_id, body) ==
    IF ~UserUpdateValid(body)
    THEN [db |-> db, resp |-> ValidationError("update_user", Some(user_id))]
    ELSE LET update_data == ModelDumpExcludeUnset(body, UserUpdateFields)
             blank == [id |-> Some(user_id), name |-> None, email |-> None, age |-> None,
                       created_at |-> None]
             stored_user == SetAttrs(IF DictHas(db, user_id) THEN DictGet(db, user_id)
                                     ELSE blank, update_data)
         IN  [db |-> DictSet(db, user_id, stored_user),
              resp |-> Returns("update_user", Some(user_id), stored_user)]

\* update_user
UpdateUser(db, user_id, body) ==
    IF ~UserUpdateValid(body)
    THEN [db |-> db, resp |-> ValidationError("update_user", Some(user_id))]
    ELSE IF ~DictHas(db, user_id)
    THEN [db |-> db, resp |-> NotFound("update_user", Some(user_id))]
    ELSE LET update_data == ModelDumpExcludeUnset(body, UserUpdateFields)
             stored_user == SetAttrs(DictGet(db, user_id), update_data)
         IN  [db |-> DictSet(db, user_id, stored_user),
              resp |-> Returns("update_user", Some(user_id), stored_user)]

\* DeleteUser as users_db.pop(user_id, None): no check that the id is stored
DeleteUserPop(db, user_id) ==
    [db |-> IF DictHas(db, user_id) THEN DictDel(db, user_id) ELSE db,
     resp |-> Response("delete_user", Some(user_id), HTTP_204_NO_CONTENT, None)]

\* delete_user
DeleteUser(db, user_id) ==
    IF ~DictHas(db, user_id)
    THEN [db |-> db, resp |-> NotFound("delete_user", Some(user_id))]
    ELSE [db |-> DictDel(db, user_id),
          resp |-> Response("delete_user", Some(user_id), HTTP_204_NO_CONTENT, None)]

\* search_users_by_email: user.email.lower() raises on an email that is None
SearchUsersByEmail(db, email) ==
    IF IsNone(email)
    THEN ValidationError("search_users_by_email", None)
    ELSE LET users_list == DictValues(db)
             Match(user) == Contains(Lower(Val(user.email)), Lower(Val(email)))
         IN  IF \E i \in 1..Len(users_list) : IsNone(users_list[i].email)
             THEN InternalError("search_users_by_email", None)
             ELSE Returns("search_users_by_email", None, SelectSeq(users_list, Match))

(***************************************************************************)
(* The item handlers, as functions of the store and the request.           *)
(***************************************************************************)
\* CreateItem without item.created_at = datetime.now()
CreateItemUnstamped(db, body, u, now) ==
    IF ~ItemValid(body)
    THEN [db |-> db, resp |-> ValidationError("create_item", None)]
    ELSE LET item == [ItemParse(body) EXCEPT !.id = Some(str(u))]
         IN  [db |-> DictSet(db, Val(item.id), item),
              resp |-> Response("create_item", None, HTTP_201_CREATED, item)]

\* create_item
CreateItem(db, body, u, now) ==
    IF ~ItemValid(body)
    THEN [db |-> db, resp |-> ValidationError("create_item", None)]
    ELSE LET item == [ItemParse(body) EXCEPT !.id = Some(str(u)),
                                             !.created_at = Some(now)]
         IN  [db |-> DictSet(db, Val(item.id), item),
              resp |-> Response("create_item", None, HTTP_201_CREATED, item)]

\* Query(None, ge=0)
PriceFilterValid(p) == IsNone(p) \/ Val(p) >= PriceFilterGe

\* item.price >= min_price / item.price <= max_price raise on a price that is None
PriceFilterRaises(items_list, bound) ==
    ~IsNone(bound) /\ \E i \in 1..Len(items_list) : IsNone(items_list[i].price)

\* get_all_items
GetAllItems(db, skip, limit, min_price, max_price) ==
    IF ~(/\ SkipValid(skip) /\ LimitValid(limit)
         /\ PriceFilterValid(min_price) /\ PriceFilterValid(max_price))
    THEN ValidationError("get_all_items", None)
    ELSE LET all_items == DictValues(db)
             AtLeast(item) == Val(item.price) >= Val(min_price)
             AtMost(item) == Val(item.price) <= Val(max_price)
             min_list == IF ~IsNone(min_price) THEN SelectSeq(all_items, AtLeast)
                         ELSE all_items
             items_list == IF ~IsNone(max_price) THEN SelectSeq(min_list, AtMost)
                           ELSE min_list
         IN  IF PriceFilterRaises(all_items, min_price) \/ PriceFilterRaises(all_items, max_price)
             THEN InternalError("get_all_items", None)
             ELSE Returns("get_all_items", None,
                          Slice(items_list, SkipOf(skip), SkipOf(skip) + LimitOf(limit)))

\* get_item
GetItem(db, item_id) ==
    IF ~DictHas(db, item_id)
    THEN NotFound("get_item", Some(item_id))
    ELSE Returns("get_item", Some(item_id), DictGet(db, item_id))

\* update_item
UpdateItem(db, item_id, body) ==
    IF ~ItemUpdateValid(body)
    THEN [db |-> db, resp |-> ValidationError("update_item", Some(item_id))]
    ELSE IF ~DictHas(db, item_id)
    THEN [db |-> db, resp |-> NotFound("update_item", Some(item_id))]
    ELSE LET update_data == ModelDumpExcludeUnset(body, ItemUpdateFields)
             stored_item == SetAttrs(DictGet(db, item_id), update_data)
         IN  [db |-> DictSet(db, item_id, stored_item),
              resp |-> Returns("update_item", Some(item_id), stored_item)]

\* delete_item
DeleteItem(db, item_id) ==
    IF ~DictHas(db, item_id)
    THEN [db |-> db, resp |-> NotFound("delete_item", Some(item_id))]
    ELSE [db |-> DictDel(db, item_id),
          resp |-> Response("delete_item", Some(item_id), HTTP_204_NO_CONTENT, None)]

(***************************************************************************)
(* Statistics.                                                             *)
(***************************************************************************)
\* sum(...) over a sequence of numbers
RECURSIVE Sum(_)
Sum(s) == IF Len(s) = 0 THEN 0 ELSE Head(s) + Sum(Tail(s))

\* round(a / n, 2) for an amount a in hundredths: to the nearest hundredth, ties to even
RoundDiv(a, n) ==
    LET q == a \div n
        r == a % n
    IN  IF 2 * r < n THEN q
        ELSE IF 2 * r > n THEN q + 1
        ELSE IF q % 2 = 0 THEN q ELSE q + 1

\* get_statistics: price * quantity and the sum of prices raise on None
GetStatistics(udb, idb) ==
    LET items == DictValues(idb)
        total_users == Len(udb)
        total_items == Len(idb)
        total_inventory_value ==
            Sum([i \in 1..Len(items) |-> Val(items[i].price) * Val(items[i].quantity)])
        avg_item_price ==
            IF total_items > 0
            THEN RoundDiv(Sum([i \in 1..Len(items) |-> Val(items[i].price)]), total_items)
            ELSE 0
    IN  IF \E i \in 1..Len(items) : IsNone(items[i].price) \/ IsNone(items[i].quantity)
        THEN InternalError("get_statistics", None)
        ELSE Returns("get_statistics", None, [users_total |-> total_users,
                       items_total |-> total_items,
                       total_inventory_value |-> total_inventory_value,
                       average_price |-> avg_item_price])

(***************************************************************************)
(* The requests the model sends.                                           *)
(***************************************************************************)
NameA == <<"A", "l">>
NameB == <<"B", "o">>
EmailA == <<"a", "@", "b", ".", "c">>
EmailB == <<"B", "@", "b", ".", "c">>
NotAnEmail == <<"a", "b">>
TitleA == <<"W">>
\* 10.00 and 20.00
PriceA == 10 * 100
PriceB == 20 * 100
QuantityA == QuantityDefault + 1
\* a timestamp a caller puts in a body: the instant 0, before the clock starts
CallerTime == Some(0)

PathIds == {str(u) : u \in 1..MaxUuid}

\* b without the field f
Without(b, f) == [g \in (DOMAIN b) \ {f} |-> b[g]]
\* b with the field f sent as v
With(b, f, v) == (f :> v) @@ b

EmptyBody == [f \in {} |-> None]

UserA == [name |-> Some(NameA), email |-> Some(EmailA), age |-> Some(AgeMin)]

ValidUserBodies ==
    {UserA,
     With(UserA, "email", Some(EmailB)),
     With(With(UserA, "id", Some(str(1))), "created_at", CallerTime),
     With(UserA, "id", None)}

InvalidUserBodies ==
    {Without(UserA, "name"),
     With(UserA, "name", None),
     With(UserA, "name", Some(Chars(NameMinLen - 1))),
     With(UserA, "name", Some(Chars(NameMaxLen + 1))),
     With(UserA, "email", Some(NotAnEmail)),
     With(UserA, "age", Some(AgeMin - 1)),
     With(UserA, "age", Some(AgeMax + 1))}

UserBodies == ValidUserBodies \cup InvalidUserBodies

\* a body that carries an id and a created_at of the caller's
UserWithId(id) ==
    With(With(With(UserA, "age", Some(AgeMax)), "id", Some(id)), "created_at", CallerTime)

ValidUserUpdateBodies ==
    {EmptyBody,
     [name |-> None],
     [email |-> None],
     [age |-> None],
     [email |-> Some(EmailB)],
     [name |-> None, age |-> Some(AgeMin)],
     [name |-> Some(NameA), email |-> Some(EmailA), age |-> None],
     [name |-> Some(NameA), email |-> Some(EmailA), age |-> Some(AgeMin)],
     [name |-> Some(NameA), id |-> Some(str(1)), created_at |-> CallerTime]}

InvalidUserUpdateBodies ==
    {[name |-> Some(Chars(NameMinLen - 1))],
     [name |-> Some(Chars(NameMaxLen + 1)), age |-> Some(AgeMin - 1)],
     [email |-> Some(NotAnEmail)],
     [age |-> Some(AgeMin - 1)],
     [age |-> Some(AgeMax + 1), email |-> Some(EmailB)]}

UserUpdateBodies == ValidUserUpdateBodies \cup InvalidUserUpdateBodies

\* an update that also carries an id, not that of the first record, and a null created_at
UserUpdateWithId == [email |-> Some(EmailB), id |-> Some(str(2)), created_at |-> None]

ItemA == [title |-> Some(TitleA), price |-> Some(PriceA)]

ValidItemBodies ==
    {ItemA,
     With(ItemA, "quantity", Some(QuantityA)),
     With(With(ItemA, "id", Some(str(1))), "created_at", CallerTime),
     With(ItemA, "description", None)}

InvalidItemBodies ==
    {Without(ItemA, "title"),
     With(ItemA, "title", Some(Chars(TitleMinLen - 1))),
     With(ItemA, "title", Some(Chars(TitleMaxLen + 1))),
     Without(ItemA, "price"),
     With(ItemA, "price", Some(PriceGt)),
     With(ItemA, "quantity", None),
     With(ItemA, "quantity", Some(QuantityGe - 1))}

ItemBodies == ValidItemBodies \cup InvalidItemBodies

ItemWithId(id) ==
    With(With(With(ItemA, "quantity", Some(QuantityA)), "id", Some(id)), "created_at", CallerTime)

ValidItemUpdateBodies ==
    {EmptyBody,
     [price |-> None],
     [quantity |-> None],
     [price |-> Some(PriceB)],
     [description |-> None, quantity |-> Some(QuantityA)],
     [title |-> Some(TitleA), price |-> Some(PriceA), quantity |-> Some(QuantityDefault)],
     [price |-> Some(PriceB), id |-> Some(str(1)), created_at |-> CallerTime]}

InvalidItemUpdateBodies ==
    {[title |-> Some(Chars(TitleMinLen - 1))],
     [title |-> Some(Chars(TitleMaxLen + 1)), price |-> Some(PriceGt - 1)],
     [price |-> Some(PriceGt)],
     [price |-> Some(PriceGt - 1)],
     [quantity |-> Some(QuantityGe - 1), price |-> Some(PriceB)]}

ItemUpdateBodies == ValidItemUpdateBodies \cup InvalidItemUpdateBodies

ItemUpdateWithId == [price |-> Some(PriceB), id |-> Some(str(2)), created_at |-> None]

\* the query strings of the list requests: skip, limit, min_price, max_price
ListInputs ==
    {<<None, None, None, None>>,
     <<Some(1), Some(1), None, None>>,
     <<Some(SkipGe - 1), None, None, None>>,
     <<None, Some(LimitGe - 1), None, None>>,
     <<None, Some(LimitLe + 1), None, None>>,
     <<None, None, Some(PriceA + 1), None>>,
     <<None, Some(LimitLe), Some(PriceA), Some(PriceB)>>,
     <<None, None, None, Some(PriceFilterGe - 1)>>}
SearchInputs == {None, Some(<<"A", "@">>), Some(<<"B", "@">>)}

(***************************************************************************)
(* The state machine.                                                      *)
(***************************************************************************)
Init ==
    /\ users_db = <<>>
    /\ items_db = <<>>
    /\ uuid_ctr = 0
    /\ clock = 1
    /\ status_code = 0
    /\ issued_users = <<>>
    /\ issued_items = <<>>
    /\ deleted_users = {}
    /\ deleted_items = {}
    /\ inflight = {}
    /\ answers = <<>>
    /\ pc = "main"
    /\ commit_message = None
    /\ commit_result = None
    /\ status_result = None
    /\ ran = <<>>
    /\ printed = <<>>
    /\ exit_status = None

\* a request that reads: only the response changes
Reads(response) ==
    /\ status_code' = response.status
    /\ UNCHANGED <<users_db, items_db, uuid_ctr, clock,
                   issued_users, issued_items, deleted_users, deleted_items>>

root == Reads(Returns("root", None, None))

health_check ==
    Reads(Returns("health_check", None,
                  [users_count |-> Len(users_db), items_count |-> Len(items_db)]))

create_user(body) ==
    /\ LET r == CreateUser(users_db, body, uuid4, Now)
           stored == r.resp.status = HTTP_201_CREATED
       IN  /\ users_db' = r.db
           /\ status_code' = r.resp.status
           /\ uuid_ctr' = IF stored THEN uuid_ctr + 1 ELSE uuid_ctr
           /\ clock' = IF stored THEN clock + 1 ELSE clock
           /\ issued_users' = IF stored THEN Append(issued_users, Val(r.resp.body.id))
                              ELSE issued_users
    /\ UNCHANGED <<items_db, issued_items, deleted_users, deleted_items>>

get_all_users(skip, limit) == Reads(GetAllUsers(users_db, skip, limit))

get_user(user_id) == Reads(GetUser(users_db, user_id))

update_user(user_id, body) ==
    /\ LET r == UpdateUser(users_db, user_id, body)
       IN  /\ users_db' = r.db
           /\ status_code' = r.resp.status
    /\ UNCHANGED <<items_db, uuid_ctr, clock,
                   issued_users, issued_items, deleted_users, deleted_items>>

\* delete_user that also drops the items
delete_user_cascade(user_id) ==
    /\ LET r == DeleteUser(users_db, user_id)
       IN  /\ users_db' = r.db
           /\ items_db' = IF r.resp.status = HTTP_204_NO_CONTENT THEN <<>> ELSE items_db
           /\ status_code' = r.resp.status
           /\ deleted_users' = IF r.resp.status = HTTP_204_NO_CONTENT
                               THEN deleted_users \cup {user_id}
                               ELSE deleted_users
    /\ UNCHANGED <<uuid_ctr, clock, issued_users, issued_items, deleted_items>>

delete_user(user_id) ==
    /\ LET r == DeleteUser(users_db, user_id)
       IN  /\ users_db' = r.db
           /\ status_code' = r.resp.status
           /\ deleted_users' = IF r.resp.status = HTTP_204_NO_CONTENT
                               THEN deleted_users \cup {user_id}
                               ELSE deleted_users
    /\ UNCHANGED <<items_db, uuid_ctr, clock, issued_users, issued_items, deleted_items>>

search_users_by_email(email) == Reads(SearchUsersByEmail(users_db, email))

create_item(body) ==
    /\ LET r == CreateItem(items_db, body, uuid4, Now)
           stored == r.resp.status = HTTP_201_CREATED
       IN  /\ items_db' = r.db
           /\ status_code' = r.resp.status
           /\ uuid_ctr' = IF stored THEN uuid_ctr + 1 ELSE uuid_ctr
           /\ clock' = IF stored THEN clock + 1 ELSE clock
           /\ issued_items' = IF stored THEN Append(issued_items, Val(r.resp.body.id))
                              ELSE issued_items
    /\ UNCHANGED <<users_db, issued_users, deleted_users, deleted_items>>

get_all_items(skip, limit, min_price, max_price) ==
    Reads(GetAllItems(items_db, skip, limit, min_price, max_price))

get_item(item_id) == Reads(GetItem(items_db, item_id))

update_item(item_id, body) ==
    /\ LET r == UpdateItem(items_db, item_id, body)
       IN  /\ items_db' = r.db
           /\ status_code' = r.resp.status
    /\ UNCHANGED <<users_db, uuid_ctr, clock,
                   issued_users, issued_items, deleted_users, deleted_items>>

delete_item(item_id) ==
    /\ LET r == DeleteItem(items_db, item_id)
       IN  /\ items_db' = r.db
           /\ status_code' = r.resp.status
           /\ deleted_items' = IF r.resp.status = HTTP_204_NO_CONTENT
                               THEN deleted_items \cup {item_id}
                               ELSE deleted_items
    /\ UNCHANGED <<users_db, uuid_ctr, clock, issued_users, issued_items, deleted_users>>

get_statistics == Reads(GetStatistics(users_db, items_db))

\* reset_database without items_db.clear()
reset_users_only ==
    /\ users_db' = <<>>
    /\ items_db' = items_db
    /\ status_code' = Returns("reset_database", None, None).status
    /\ UNCHANGED <<uuid_ctr, clock, issued_users, issued_items, deleted_users, deleted_items>>

reset_database ==
    /\ users_db' = <<>>
    /\ items_db' = <<>>
    /\ status_code' = Returns("reset_database", None, None).status
    /\ UNCHANGED <<uuid_ctr, clock, issued_users, issued_items, deleted_users, deleted_items>>

\* The bodies the state machine sends: for each route some accepted bodies, which
\* set a field to another value, set a field to null and restore a record, and one
\* rejected body.  The properties range over all the bodies above.
SentUserBodies ==
    {UserA, UserWithId(str(1)),
     With(UserA, "name", Some(Chars(NameMinLen - 1)))}
SentUserUpdateBodies ==
    {[name |-> None], [email |-> None], UserUpdateWithId,
     [name |-> Some(NameA), email |-> Some(EmailA), age |-> Some(AgeMin)],
     [age |-> Some(AgeMin - 1)]}
SentItemBodies ==
    {ItemA, ItemWithId(str(1)),
     With(ItemA, "price", Some(PriceGt))}
SentItemUpdateBodies ==
    {[price |-> None], ItemUpdateWithId,
     [title |-> Some(TitleA), price |-> Some(PriceA), quantity |-> Some(QuantityDefault)],
     [price |-> Some(PriceGt - 1)]}

\* a request is handled when it is received: none waits in flight; auto_push.py
\* is not running
Alone == UNCHANGED <<server_vars, push_vars>>

\* the routes, each with the requests the model sends to it; a body that is
\* accepted is sent to a create route while uuid4 has identifiers left
GET_root == root /\ Alone
GET_health == health_check /\ Alone
POST_users ==
    \E body \in SentUserBodies :
        (UserValid(body) => uuid_ctr < MaxUuid) /\ create_user(body) /\ Alone
GET_users == \E q \in ListInputs : get_all_users(q[1], q[2]) /\ Alone
GET_users_id == \E user_id \in PathIds : get_user(user_id) /\ Alone
PUT_users_id ==
    \E user_id \in PathIds, body \in SentUserUpdateBodies : update_user(user_id, body) /\ Alone
DELETE_users_id == \E user_id \in PathIds : delete_user(user_id) /\ Alone
GET_users_search == \E email \in SearchInputs : search_users_by_email(email) /\ Alone
POST_items ==
    \E body \in SentItemBodies :
        (ItemValid(body) => uuid_ctr < MaxUuid) /\ create_item(body) /\ Alone
GET_items == \E q \in ListInputs : get_all_items(q[1], q[2], q[3], q[4]) /\ Alone
GET_items_id == \E item_id \in PathIds : get_item(item_id) /\ Alone
PUT_items_id ==
    \E item_id \in PathIds, body \in SentItemUpdateBodies : update_item(item_id, body) /\ Alone
DELETE_items_id == \E item_id \in PathIds : delete_item(item_id) /\ Alone
GET_stats == get_statistics /\ Alone
POST_reset == reset_database /\ Alone

Next ==
    \/ GET_root
    \/ GET_health
    \/ POST_users
    \/ GET_users
    \/ GET_users_id
    \/ PUT_users_id
    \/ DELETE_users_id
    \/ GET_users_search
    \/ POST_items
    \/ GET_items
    \/ GET_items_id
    \/ PUT_items_id
    \/ DELETE_items_id
    \/ GET_stats
    \/ POST_reset

Spec == Init /\ [][Next]_vars

(***************************************************************************)
(* Longer runs: the same handlers, with one body for each route that takes *)
(* one, so that a collection grows to more records.                        *)
(***************************************************************************)
LongPathIds == {str(u) : u \in 1..MaxLongUuid}

Long_POST_users == uuid_ctr < MaxLongUuid /\ create_user(UserA) /\ Alone
Long_GET_users == get_all_users(None, None) /\ Alone
Long_PUT_users_id ==
    \E user_id \in LongPathIds : update_user(user_id, [email |-> Some(EmailB)]) /\ Alone
Long_DELETE_users_id == \E user_id \in LongPathIds : delete_user(user_id) /\ Alone
Long_POST_items == uuid_ctr < MaxLongUuid /\ create_item(ItemA) /\ Alone
Long_GET_items == get_all_items(None, None, None, None) /\ Alone
Long_PUT_items_id ==
    \E item_id \in LongPathIds : update_item(item_id, [price |-> Some(PriceB)]) /\ Alone
Long_DELETE_items_id == \E item_id \in LongPathIds : delete_item(item_id) /\ Alone

NextLong ==
    \/ Long_POST_users
    \/ Long_GET_users
    \/ Long_PUT_users_id
    \/ Long_DELETE_users_id
    \/ Long_POST_items
    \/ Long_GET_items
    \/ Long_PUT_items_id
    \/ Long_DELETE_items_id
    \/ POST_reset

SpecLong == Init /\ [][NextLong]_vars

(***************************************************************************)
(* Requests in flight.  uvicorn runs the application in one process with   *)
(* one event loop.  Every handler is an `async def` whose body holds no    *)
(* await: once the loop has started it, it runs to its end before the loop *)
(* runs anything else.  The server can receive several requests before the *)
(* handler of the first of them runs, and it runs the handlers one by one  *)
(* in any order.                                                           *)
(***************************************************************************)
Request(op, id, body) == [op |-> op, id |-> id, body |-> body]

CreateFirst == Request("create_user", None, UserA)
UpdateEmail == Request("update_user", str(1), [email |-> Some(EmailB)])
UpdateAge == Request("update_user", str(1), [age |-> Some(AgeMax)])
UpdateName == Request("update_user", str(1), [name |-> Some(NameB)])
DeleteFirst == Request("delete_user", str(1), EmptyBody)

\* the requests that clients issue, each of them once
ConcurrentRequests == {CreateFirst, UpdateEmail, UpdateAge, UpdateName, DeleteFirst}

\* the server receives a request: its handler is yet to run
receive(req) ==
    /\ req \notin inflight
    /\ \A i \in 1..Len(answers) : answers[i].req # req
    /\ Cardinality(inflight) < MaxInflight
    /\ inflight' = inflight \cup {req}
    /\ UNCHANGED <<api_vars, answers, push_vars>>

\* the event loop runs the handler of a request in flight, from its first
\* statement to its last
handle(req) ==
    /\ req \in inflight
    /\ \/ req.op = "create_user" /\ create_user(req.body)
       \/ req.op = "update_user" /\ update_user(req.id, req.body)
       \/ req.op = "delete_user" /\ delete_user(req.id)
    /\ inflight' = inflight \ {req}
    /\ answers' = Append(answers, [req |-> req, status |-> status_code',
                                   with |-> inflight \ {req}])
    /\ UNCHANGED push_vars

Receive == \E req \in ConcurrentRequests : receive(req)
Handle == \E req \in ConcurrentRequests : handle(req)

NextConcurrent == Receive \/ Handle

SpecConcurrent == Init /\ [][NextConcurrent]_vars

(***************************************************************************)
(* auto_push.py: main() reads a commit message and runs git add, git       *)
(* commit and git push.  One action per statement that reads an input or   *)
(* runs a command; the outcome of a command is an input of its action.     *)
(***************************************************************************)
\* " ".join(words)
RECURSIVE Join(_)
Join(words) ==
    IF Len(words) = 0 THEN <<>>
    ELSE IF Len(words) = 1 THEN words[1]
    ELSE words[1] \o <<" ">> \o Join(Tail(words))

\* s.strip() on strings whose only whitespace is the space
RECURSIVE Strip(_)
Strip(s) ==
    IF Len(s) = 0 THEN s
    ELSE IF s[1] = " " THEN Strip(Tail(s))
    ELSE IF s[Len(s)] = " " THEN Strip(SubSeq(s, 1, Len(s) - 1))
    ELSE s

\* the words of a command line, the command lines sys.argv[1:] and the lines typed
Words == {<<>>, <<"f", "i", "x">>}
Argvs == UNION {[1..n -> Words] : n \in 0..MaxArgs}
TypedLines == {<<>>, <<" ", " ">>, <<"f", "i", "x">>, <<" ", "u", "p", " ">>}

\* what input() raises, if anything
InputRaises == {"nothing", "KeyboardInterrupt", "EOFError"}

\* the return codes of a git command; None: the command could not be started
ReturnCodes == {Some(0), Some(1), Some(128)}
Outcomes == ReturnCodes \cup {None}
\* the output of git status --porcelain
StatusOutputs == {<<>>, <<" ", "M", " ", "f">>, <<" ">>}

GitAdd == <<"git", "add", ".">>
GitCommit(message) == <<"git", "commit", "-m", message>>
GitStatus == <<"git", "status", "--porcelain">>
GitPush == <<"git", "push">>

\* sys.exit(n), and the end of the program by an exception that nothing catches
Exit(n) == pc' = "exit" /\ exit_status' = Some(n)

\* subprocess.run(command_list, ...): the command and what it returned
Run(command_list, returncode) ==
    ran' = Append(ran, [cmd |-> command_list, returncode |-> returncode])

\* run_git_command when the command fails: CalledProcessError is caught, printed and
\* answered with sys.exit(1); FileNotFoundError is not caught
GitCommandFails(returncode) ==
    /\ printed' = IF IsNone(returncode) THEN Append(printed, "Traceback")
                  ELSE Append(printed, "Error executing")
    /\ Exit(1)

\* lines 16-23: the message from the arguments, or the line typed; input() raises
\* KeyboardInterrupt on Ctrl-C and EOFError at the end of the input
read_message(argv, typed, raised) ==
    /\ pc = "main"
    /\ IF Len(argv) > 0
       THEN /\ commit_message' = Some(Join(argv))
            /\ pc' = "check_message"
            /\ UNCHANGED <<printed, exit_status>>
       ELSE IF raised = "KeyboardInterrupt"
       THEN /\ printed' = Append(printed, "Operation cancelled.")
            /\ Exit(0)
            /\ UNCHANGED commit_message
       ELSE IF raised = "EOFError"
       THEN /\ printed' = Append(printed, "Traceback")
            /\ Exit(1)
            /\ UNCHANGED commit_message
       ELSE /\ commit_message' = Some(Strip(typed))
            /\ pc' = "check_message"
            /\ UNCHANGED <<printed, exit_status>>
    /\ UNCHANGED <<commit_result, status_result, ran, api_vars, server_vars>>

\* lines 25-32
check_message ==
    /\ pc = "check_message"
    /\ IF Val(commit_message) = <<>>
       THEN /\ printed' = Append(printed, "Error: Commit message cannot be empty.")
            /\ Exit(1)
       ELSE /\ printed' = printed \o <<"Starting automated push", "[1/3]">>
            /\ pc' = "git_add"
            /\ UNCHANGED exit_status
    /\ UNCHANGED <<commit_message, commit_result, status_result, ran, api_vars, server_vars>>

\* lines 33-36: run_git_command(["git", "add", "."])
git_add(returncode) ==
    /\ pc = "git_add"
    /\ Run(GitAdd, returncode)
    /\ IF returncode = Some(0)
       THEN /\ printed' = Append(printed, "[2/3]")
            /\ pc' = "git_commit"
            /\ UNCHANGED exit_status
       ELSE GitCommandFails(returncode)
    /\ UNCHANGED <<commit_message, commit_result, status_result, api_vars, server_vars>>

\* git_commit as a call of run_git_command: a commit that fails ends the program
git_commit_checked(returncode) ==
    /\ pc = "git_commit"
    /\ Run(GitCommit(Val(commit_message)), returncode)
    /\ commit_result' = returncode
    /\ IF returncode = Some(0)
       THEN /\ printed' = Append(printed, "[3/3]")
            /\ pc' = "git_push"
            /\ UNCHANGED exit_status
       ELSE GitCommandFails(returncode)
    /\ UNCHANGED <<commit_message, status_result, api_vars, server_vars>>

\* lines 38-44: subprocess.run(["git", "commit", "-m", commit_message]) without check
git_commit(returncode) ==
    /\ pc = "git_commit"
    /\ Run(GitCommit(Val(commit_message)), returncode)
    /\ commit_result' = returncode
    /\ IF returncode = Some(0)
       THEN /\ printed' = Append(printed, "[3/3]")
            /\ pc' = "git_push"
       ELSE /\ printed' = printed
            /\ pc' = "git_status"
    /\ UNCHANGED <<commit_message, status_result, exit_status, api_vars, server_vars>>

\* lines 46-55: git status --porcelain after a commit that returned non-zero
git_status(stdout) ==
    /\ pc = "git_status"
    /\ Run(GitStatus, Some(0))
    /\ status_result' = Some(Strip(stdout))
    /\ printed' = IF Strip(stdout) = <<>> /\ commit_result = Some(1)
                  THEN printed \o <<"Nothing to commit.", "[3/3]">>
                  ELSE printed \o <<"Commit might have failed", "[3/3]">>
    /\ pc' = "git_push"
    /\ UNCHANGED <<commit_message, commit_result, exit_status, api_vars, server_vars>>

\* lines 56-58: run_git_command(["git", "push"]), the last line, the end of main()
git_push(returncode) ==
    /\ pc = "git_push"
    /\ Run(GitPush, returncode)
    /\ IF returncode = Some(0)
       THEN /\ printed' = Append(printed, "Done! Changes pushed successfully.")
            /\ Exit(0)
       ELSE GitCommandFails(returncode)
    /\ UNCHANGED <<commit_message, commit_result, status_result, api_vars, server_vars>>

ReadMessage ==
    \E argv \in Argvs, typed \in TypedLines, raised \in InputRaises :
        read_message(argv, typed, raised)
RunGitAdd == \E returncode \in Outcomes : git_add(returncode)
\* git add has just run: git can be started
RunGitCommit == \E returncode \in ReturnCodes : git_commit(returncode)
RunGitStatus == \E stdout \in StatusOutputs : git_status(stdout)
RunGitPush == \E returncode \in ReturnCodes : git_push(returncode)

NextPush ==
    \/ ReadMessage
    \/ check_message
    \/ RunGitAdd
    \/ RunGitCommit
    \/ RunGitStatus
    \/ RunGitPush

SpecPush == Init /\ [][NextPush]_vars

(***************************************************************************)
(* Properties.  A property of a handler is stated of the handler's         *)
(* function at every reachable store and for every request of the sets     *)
(* above; a property of what a request leaves alone is stated of the steps. *)
(***************************************************************************)
Range(s) == {s[i] : i \in 1..Len(s)}
NoDuplicates(s) == \A i, j \in 1..Len(s) : i # j => s[i] # s[j]

UserRecordOk(u) ==
    /\ ~IsNone(u.name) /\ NameOk(Val(u.name))
    /\ ~IsNone(u.email)
    /\ ~IsNone(u.age) /\ AgeOk(Val(u.age))

ItemRecordOk(it) ==
    /\ ~IsNone(it.title) /\ TitleOk(Val(it.title))
    /\ ~IsNone(it.price) /\ PriceOk(Val(it.price))
    /\ ~IsNone(it.quantity) /\ QuantityOk(Val(it.quantity))

\* C1: every record stored in users_db or items_db satisfies its field
\* constraints: a user has a name of 1..100 characters, an email that is not
\* null and an age in 0..150; an item has a title of 1..200 characters, a
\* price > 0 and a quantity >= 0.
C1_StoredRecordsSatisfyConstraints ==
    /\ \A i \in 1..Len(users_db) : UserRecordOk(users_db[i].val)
    /\ \A i \in 1..Len(items_db) : ItemRecordOk(items_db[i].val)

\* C2: a create that succeeds returns a record whose id is not empty and differs
\* from every id the collection issued before, the ids of records deleted or
\* cleared by a reset included; so no id occurs twice in the history of the ids
\* issued.
C2_CreatedIdsAreFresh ==
    /\ NoDuplicates(issued_users)
    /\ NoDuplicates(issued_items)
    /\ \A id \in Range(issued_users) \cup Range(issued_items) : Len(id) > 0
    /\ \A body \in ValidUserBodies :
          LET r == CreateUser(users_db, body, uuid4, Now)
          IN  /\ r.resp.status = HTTP_201_CREATED
              /\ ~IsNone(r.resp.body.id)
              /\ Len(Val(r.resp.body.id)) > 0
              /\ Val(r.resp.body.id) \notin Range(issued_users) \cup deleted_users
    /\ \A body \in ValidItemBodies :
          LET r == CreateItem(items_db, body, uuid4, Now)
          IN  /\ r.resp.status = HTTP_201_CREATED
              /\ ~IsNone(r.resp.body.id)
              /\ Len(Val(r.resp.body.id)) > 0
              /\ Val(r.resp.body.id) \notin Range(issued_items) \cup deleted_items

\* C2 witness: a second user id was issued after the first one was deleted.
C2_Witness ==
    /\ Len(issued_users) >= 2
    /\ issued_users[1] \in deleted_users
    /\ DictHas(users_db, issued_users[2])
    /\ status_code = HTTP_201_CREATED

\* the id and created_at of every record are the same after the update as before
KeepsIdentity(db, after) ==
    /\ Len(after) = Len(db)
    /\ \A i \in 1..Len(db) :
          /\ after[i].key = db[i].key
          /\ after[i].val.id = db[i].val.id
          /\ after[i].val.created_at = db[i].val.created_at

\* C3: no update, with any accepted payload (one that carries an id or a
\* created_at of its own included), changes the id or the created_at of the
\* record it updates or of any other record.
C3_UpdateKeepsIdAndCreatedAt ==
    /\ \A user_id \in PathIds, body \in ValidUserUpdateBodies :
          KeepsIdentity(users_db, UpdateUser(users_db, user_id, body).db)
    /\ \A item_id \in PathIds, body \in ValidItemUpdateBodies :
          KeepsIdentity(items_db, UpdateItem(items_db, item_id, body).db)

\* C3 witness: a stored user whose name an update has set to null still carries
\* the id it is stored under and the timestamp of its creation.
C3_Witness ==
    \E i \in 1..Len(users_db) :
        /\ IsNone(users_db[i].val.name)
        /\ users_db[i].val.id = Some(users_db[i].key)
        /\ ~IsNone(users_db[i].val.created_at)

\* the outcome r of an update of the record id of db with the payload body
MergesPayload(db, id, body, r, fields) ==
    LET before == DictGet(db, id)
    IN  /\ r.resp.status = 200
        /\ r.resp.body = DictGet(r.db, id)
        /\ \A f \in DOMAIN before :
              r.resp.body[f] = IF f \in fields \cap DOMAIN body THEN body[f] ELSE before[f]
        /\ (fields \cap DOMAIN body = {}) => (r.resp.body = before /\ r.db = db)
        /\ Len(r.db) = Len(db)
        /\ \A i \in 1..Len(db) : db[i].key # id => r.db[i] = db[i]

\* C4: a successful update returns and stores a record in which every field the
\* payload carries has the payload's value and every other field has the value
\* it had; with an empty payload the record and the store are unchanged; the
\* other records of the collection are unchanged.
C4_UpdateMergesPayload ==
    /\ \A user_id \in DictKeys(users_db), body \in ValidUserUpdateBodies :
          MergesPayload(users_db, user_id, body,
                        UpdateUser(users_db, user_id, body), UserUpdateFields)
    /\ \A item_id \in DictKeys(items_db), body \in ValidItemUpdateBodies :
          MergesPayload(items_db, item_id, body,
                        UpdateItem(items_db, item_id, body), ItemUpdateFields)

\* C4 witness: two users are stored; an update has changed the email of the
\* second one and set its name to null, and the first one is as created.
C4_Witness ==
    /\ Len(users_db) = 2
    /\ users_db[2].val.email = Some(EmailB)
    /\ IsNone(users_db[2].val.name)
    /\ users_db[2].val.age = Some(AgeMin)
    /\ users_db[1].val = [id |-> Some(users_db[1].key), name |-> Some(NameA),
                          email |-> Some(EmailA), age |-> Some(AgeMin),
                          created_at |-> Some(1)]
    /\ status_code = 200

\* the three handlers that take a user id, and those that take an item id,
\* answer NotFound and would leave the collection as it is
UserIdNotFound(user_id, bodies) ==
    /\ GetUser(users_db, user_id).status = HTTP_404_NOT_FOUND
    /\ DeleteUser(users_db, user_id) =
          [db |-> users_db, resp |-> NotFound("delete_user", Some(user_id))]
    /\ \A body \in bodies :
          UpdateUser(users_db, user_id, body) =
             [db |-> users_db, resp |-> NotFound("update_user", Some(user_id))]

ItemIdNotFound(item_id, bodies) ==
    /\ GetItem(items_db, item_id).status = HTTP_404_NOT_FOUND
    /\ DeleteItem(items_db, item_id) =
          [db |-> items_db, resp |-> NotFound("delete_item", Some(item_id))]
    /\ \A body \in bodies :
          UpdateItem(items_db, item_id, body) =
             [db |-> items_db, resp |-> NotFound("update_item", Some(item_id))]

\* a rejected payload is answered with a validation error, stored id or not
RejectedUpdatesAreValidationErrors ==
    /\ \A user_id \in PathIds, body \in InvalidUserUpdateBodies :
          UpdateUser(users_db, user_id, body) =
             [db |-> users_db, resp |-> ValidationError("update_user", Some(user_id))]
    /\ \A item_id \in PathIds, body \in InvalidItemUpdateBodies :
          UpdateItem(items_db, item_id, body) =
             [db |-> items_db, resp |-> ValidationError("update_item", Some(item_id))]

\* C5 as stated: get, update and delete with an id that is not a key of the
\* collection return NotFound, whatever payload the update carries.
C5_AbsentIdIsNotFound ==
    /\ \A user_id \in PathIds \ DictKeys(users_db) : UserIdNotFound(user_id, UserUpdateBodies)
    /\ \A item_id \in PathIds \ DictKeys(items_db) : ItemIdNotFound(item_id, ItemUpdateBodies)

C5_AbsentIdWithAcceptedPayload ==
    /\ \A user_id \in PathIds \ DictKeys(users_db) :
          UserIdNotFound(user_id, ValidUserUpdateBodies)
    /\ \A item_id \in PathIds \ DictKeys(items_db) :
          ItemIdNotFound(item_id, ValidItemUpdateBodies)
    /\ RejectedUpdatesAreValidationErrors

\* C5 amended: get and delete with an id that is not a key of the collection,
\* and update with such an id and a payload the schema accepts, return NotFound
\* (an update with a rejected payload returns a validation error instead); a
\* request answered NotFound leaves users_db and items_db as they were.
C5_AbsentIdIsNotFoundWhenAccepted ==
    /\ []C5_AbsentIdWithAcceptedPayload
    /\ [][status_code' = HTTP_404_NOT_FOUND =>
             (users_db' = users_db /\ items_db' = items_db)]_vars

\* C5 witness: with a user and an item stored, a request for another id was
\* answered NotFound.
C5_Witness ==
    /\ status_code = HTTP_404_NOT_FOUND
    /\ Len(users_db) = 1
    /\ Len(items_db) = 1

\* C6 as stated: after a successful delete of an id, every later get, update and
\* delete of that id returns NotFound, whatever payload the update carries.
C6_DeletedIdIsNotFound ==
    /\ \A user_id \in deleted_users : UserIdNotFound(user_id, UserUpdateBodies)
    /\ \A item_id \in deleted_items : ItemIdNotFound(item_id, ItemUpdateBodies)

\* C6 amended: after a successful delete of an id, whatever requests follow, the
\* id is not a key of the collection again: every later get and delete of it, and
\* every later update of it with a payload the schema accepts, returns NotFound
\* (an update with a rejected payload returns a validation error), so a record is
\* deleted successfully at most once.
C6_DeletedIdStaysNotFound ==
    /\ \A user_id \in deleted_users :
          /\ user_id \in PathIds
          /\ ~DictHas(users_db, user_id)
          /\ UserIdNotFound(user_id, ValidUserUpdateBodies)
    /\ \A item_id \in deleted_items :
          /\ item_id \in PathIds
          /\ ~DictHas(items_db, item_id)
          /\ ItemIdNotFound(item_id, ValidItemUpdateBodies)
    /\ RejectedUpdatesAreValidationErrors

\* C6 witness: a user was deleted, every id of the run has been issued, a user
\* created since is stored, and a request was answered NotFound.
C6_Witness ==
    /\ deleted_users # {}
    /\ Len(issued_users) + Len(issued_items) = MaxUuid
    /\ \E i \in 1..Len(users_db) : users_db[i].key \notin deleted_users
    /\ status_code = HTTP_404_NOT_FOUND

\* the store and the response of a request that FastAPI rejects
RejectedCreatesStoreNothing ==
    /\ \A body \in InvalidUserBodies :
          CreateUser(users_db, body, uuid4, Now) =
             [db |-> users_db, resp |-> ValidationError("create_user", None)]
    /\ \A body \in InvalidItemBodies :
          CreateItem(items_db, body, uuid4, Now) =
             [db |-> items_db, resp |-> ValidationError("create_item", None)]

WindowSkips == {None} \cup {Some(n) : n \in SkipGe..(MaxUuid + 1)}
WindowLimits == {None} \cup {Some(n) : n \in (LimitGe..(MaxUuid + 1)) \cup {LimitLe}}
PriceBounds == {None, Some(PriceFilterGe), Some(PriceA), Some(PriceA + 1), Some(PriceB)}
SearchQueries == {Some(<<>>), Some(<<"A", "@">>), Some(<<"B", "@">>), Some(<<"z">>)}

\* C8: in every reachable state each of the reading requests, sent with a query
\* string that FastAPI accepts, ends with a value or with NotFound, never with an
\* error that nothing handles.
C8_ReadsReturnTypedResults ==
    /\ \A skip \in WindowSkips, limit \in WindowLimits :
          /\ GetAllUsers(users_db, skip, limit).status = 200
          /\ \A min_price \in PriceBounds, max_price \in PriceBounds :
                GetAllItems(items_db, skip, limit, min_price, max_price).status = 200
    /\ \A email \in SearchQueries : SearchUsersByEmail(users_db, email).status = 200
    /\ GetStatistics(users_db, items_db).status = 200
    /\ \A id \in PathIds :
          /\ GetUser(users_db, id).status \in {200, HTTP_404_NOT_FOUND}
          /\ GetItem(items_db, id).status \in {200, HTTP_404_NOT_FOUND}

\* the items that satisfy the price bounds supplied, in store order
PriceFiltered(items, min_price, max_price) ==
    LET Keep(it) ==
            /\ IsNone(min_price) \/ (~IsNone(it.price) /\ Val(it.price) >= Val(min_price))
            /\ IsNone(max_price) \/ (~IsNone(it.price) /\ Val(it.price) <= Val(max_price))
    IN  SelectSeq(items, Keep)

\* body holds the records at the positions skip+1 .. skip+limit of seq
IsWindow(seq, skip, limit, body) ==
    /\ Len(body) <= limit
    /\ Len(body) = Max(0, Min(limit, Len(seq) - skip))
    /\ \A j \in 1..Len(body) : body[j] = seq[skip + j]
    /\ skip >= Len(seq) => body = <<>>

\* C9: with skip >= 0 and limit >= 1 the list requests return the records at
\* the positions skip .. skip+limit-1 of the filtered sequence: never more than
\* limit records, none when skip is at or beyond the filtered count, never an
\* error.  (Stated here for limit <= 100.)
C9_ListReturnsWindow ==
    \A skip \in WindowSkips, limit \in WindowLimits :
        /\ LET r == GetAllUsers(users_db, skip, limit)
           IN  /\ r.status = 200
               /\ IsWindow(DictValues(users_db), SkipOf(skip), LimitOf(limit), r.body)
        /\ \A min_price \in PriceBounds, max_price \in PriceBounds :
              LET r == GetAllItems(items_db, skip, limit, min_price, max_price)
              IN  /\ r.status = 200
                  /\ IsWindow(PriceFiltered(DictValues(items_db), min_price, max_price),
                              SkipOf(skip), LimitOf(limit), r.body)

\* page sizes, and the price bounds of two list requests with the same filters
PageSizes == {LimitGe, LimitGe + 1, LimitLe - 1, LimitLe}
PageFilters ==
    {<<None, None>>, <<Some(PriceA + 1), None>>, <<None, Some(PriceA)>>,
     <<Some(PriceA), Some(PriceB)>>}

\* two pages one after the other; a request that failed gives its failure
ListConcat(a, b) ==
    IF a.status # 200 THEN a
    ELSE IF b.status # 200 THEN b
    ELSE [a EXCEPT !.body = a.body \o b.body]

PagesConcatenate(N, M) ==
    /\ ListConcat(GetAllUsers(users_db, Some(0), Some(N)),
                  GetAllUsers(users_db, Some(N), Some(M)))
          = GetAllUsers(users_db, Some(0), Some(N + M))
    /\ \A f \in PageFilters :
          ListConcat(GetAllItems(items_db, Some(0), Some(N), f[1], f[2]),
                     GetAllItems(items_db, Some(N), Some(M), f[1], f[2]))
             = GetAllItems(items_db, Some(0), Some(N + M), f[1], f[2])

\* C10 as stated: on an unchanged store and with the same filters, for all
\* N >= 1 and M >= 1, list(skip=0, limit=N) followed by list(skip=N, limit=M)
\* equals list(skip=0, limit=N+M).
C10_PagesConcatenate ==
    \A N \in PageSizes, M \in PageSizes : PagesConcatenate(N, M)

\* C10 amended: the same for all N >= 1 and M >= 1 with N + M <= 100, the
\* largest limit a list request accepts; a list request that fails with given
\* filters fails for each of the three windows.
C10_PagesConcatenateWithinLimit ==
    \A N \in PageSizes, M \in PageSizes : N + M <= LimitLe => PagesConcatenate(N, M)

\* C10 witness: two items are stored, so that the page of one record and the
\* page after it are both non-empty, and a list request has been answered.
C10_Witness ==
    /\ Len(items_db) = 2
    /\ GetAllItems(items_db, Some(0), Some(1), None, None).body # <<>>
    /\ GetAllItems(items_db, Some(1), Some(1), None, None).body # <<>>
    /\ status_code = 200

\* the list request whose window covers the whole collection
WholeSkip == Some(SkipGe)
WholeLimit == Some(LimitLe)

\* it holds exactly the records of items whose price lies in [a, b], in store order
InPriceRange(items, a, b, body) ==
    /\ body = PriceFiltered(items, a, b)
    /\ \A j \in 1..Len(body) :
          /\ ~IsNone(body[j].price)
          /\ IsNone(a) \/ Val(body[j].price) >= Val(a)
          /\ IsNone(b) \/ Val(body[j].price) <= Val(b)
    /\ (IsNone(a) /\ IsNone(b)) => body = items
    /\ (~IsNone(a) /\ ~IsNone(b) /\ Val(a) > Val(b)) => body = <<>>

\* C11: get_all_items with min_price = a and max_price = b and a window that
\* covers the whole collection returns exactly the stored items with
\* a <= price <= b, both bounds inclusive, in store order; a bound that is not
\* supplied imposes no constraint, and the result is empty when a > b.
C11_PriceFilterReturnsItemsInRange ==
    \A a \in PriceBounds, b \in PriceBounds :
        LET r == GetAllItems(items_db, WholeSkip, WholeLimit, a, b)
        IN  /\ r.status = 200
            /\ InPriceRange(DictValues(items_db), a, b, r.body)

\* the keys of a dict, in the order of its entries
KeySeq(d) == [i \in 1..Len(d) |-> d[i].key]

\* the keys of db are the ids of issued that db still holds, in the order issued;
\* the whole list holds the records of db in that order, older records first
InCreationOrder(db, issued, whole) ==
    LET Stored(id) == DictHas(db, id)
    IN  /\ KeySeq(db) = SelectSeq(issued, Stored)
        /\ whole.status = 200
        /\ Len(whole.body) = Len(db)
        /\ \A i \in 1..Len(db) : whole.body[i] = db[i].val /\ whole.body[i].id = Some(db[i].key)
        /\ \A i, j \in 1..Len(db) :
              i < j => Val(whole.body[i].created_at) < Val(whole.body[j].created_at)

\* a delete takes its key out of the sequence of keys and an update leaves the
\* sequence as it is
OrderKept(db, k, deleted, updated) ==
    LET NotK(id) == id # k
    IN  /\ KeySeq(deleted) = SelectSeq(KeySeq(db), NotK)
        /\ KeySeq(updated) = KeySeq(db)

\* C12: the sequence get_all_users / get_all_items returns before windowing holds
\* the records stored, in the order of their creation: a delete does not change
\* the relative order of the records that remain, and an update does not change
\* the position of its record.
C12_ListIsInCreationOrder ==
    /\ InCreationOrder(users_db, issued_users, GetAllUsers(users_db, WholeSkip, WholeLimit))
    /\ InCreationOrder(items_db, issued_items,
                       GetAllItems(items_db, WholeSkip, WholeLimit, None, None))
    /\ \A k \in DictKeys(users_db), body \in ValidUserUpdateBodies :
          OrderKept(users_db, k, DeleteUser(users_db, k).db, UpdateUser(users_db, k, body).db)
    /\ \A k \in DictKeys(items_db), body \in ValidItemUpdateBodies :
          OrderKept(items_db, k, DeleteItem(items_db, k).db, UpdateItem(items_db, k, body).db)

\* C12 witness: of three users created the second was deleted and the first was
\* updated: the list holds the first and then the third.
C12_Witness ==
    /\ Len(issued_users) = 3
    /\ deleted_users = {issued_users[2]}
    /\ KeySeq(users_db) = <<issued_users[1], issued_users[3]>>
    /\ users_db[1].val.email = Some(EmailB)
    /\ users_db[2].val.email = Some(EmailA)

\* the amount a, in hundredths, is the quotient sum / n to the nearest hundredth
IsQuotient(a, sum, n) == 2 * (a * n - sum) <= n /\ 2 * (sum - a * n) <= n

\* C13: in every reachable state get_statistics returns the number of stored
\* users, the number of stored items, the sum over the stored items of
\* price * quantity, and the sum of the item prices divided by the number of
\* items (to the hundredth the response is rounded to), which is 0 when no item
\* is stored.
C13_StatisticsAreTotals ==
    LET r == GetStatistics(users_db, items_db)
        items == DictValues(items_db)
    IN  /\ r.status = 200
        /\ r.body.users_total = Cardinality(DictKeys(users_db))
        /\ r.body.items_total = Cardinality(DictKeys(items_db))
        /\ r.body.total_inventory_value =
              Sum([i \in 1..Len(items) |-> Val(items[i].price) * Val(items[i].quantity)])
        /\ IF Len(items) = 0
           THEN r.body.average_price = 0 /\ r.body.total_inventory_value = 0
           ELSE IsQuotient(r.body.average_price,
                           Sum([i \in 1..Len(items) |-> Val(items[i].price)]), Len(items))

\* the ids a caller can have learnt: those of the records created so far
KnownIds == Range(issued_users) \cup Range(issued_items)

\* the outcome r of a create with a body that carries the id and the created_at
\* of the caller: one new record under the id u, stamped now, after the others
StoresUnderFreshId(db, body, u, now, r) ==
    /\ ~IsNone(body["id"]) /\ ~IsNone(body["created_at"])
    /\ r.resp.status = HTTP_201_CREATED
    /\ r.resp.body.id = Some(str(u))
    /\ r.resp.body.id # body["id"]
    /\ r.resp.body.created_at = Some(now)
    /\ r.resp.body.created_at # body["created_at"]
    /\ ~DictHas(db, str(u))
    /\ r.db = Append(db, [key |-> str(u), val |-> r.resp.body])
    /\ DictKeys(r.db) = DictKeys(db) \cup {str(u)}
    /\ \A k \in DictKeys(db) : DictGet(r.db, k) = DictGet(db, k)

\* C14: create_user / create_item with a body that carries its own id and
\* created_at stores the record under a freshly generated id and with the
\* timestamp of the server, not the ones supplied; when the body carries the id
\* of a stored record, that record is unchanged and the collection grows by
\* exactly one record.
C14_CreateIgnoresSuppliedIdentity ==
    \A id \in KnownIds :
        /\ StoresUnderFreshId(users_db, UserWithId(id), uuid4, Now,
                              CreateUser(users_db, UserWithId(id), uuid4, Now))
        /\ StoresUnderFreshId(items_db, ItemWithId(id), uuid4, Now,
                              CreateItem(items_db, ItemWithId(id), uuid4, Now))

\* C14 witness: the first user is stored under the id a later body carried, and
\* the record of that body is stored after it under an id and a timestamp of its
\* own.
C14_Witness ==
    /\ Len(users_db) = 2
    /\ users_db[1].key = UserWithId(str(1))["id"][1]
    /\ users_db[1].val.age = UserA.age
    /\ users_db[2].val.age = UserWithId(str(1)).age
    /\ users_db[2].val.id = Some(users_db[2].key)
    /\ users_db[2].val.created_at = Some(2)
    /\ status_code = HTTP_201_CREATED

\* what the reading requests return on empty collections
ReadsFindNothing ==
    /\ users_db = <<>> /\ items_db = <<>>
    /\ \A id \in PathIds \cup KnownIds :
          /\ GetUser(users_db, id) = NotFound("get_user", Some(id))
          /\ GetItem(items_db, id) = NotFound("get_item", Some(id))
    /\ \A skip \in WindowSkips, limit \in WindowLimits :
          /\ GetAllUsers(users_db, skip, limit) = Returns("get_all_users", None, <<>>)
          /\ GetAllItems(items_db, skip, limit, None, None)
                = Returns("get_all_items", None, <<>>)
    /\ \A min_price \in PriceBounds, max_price \in PriceBounds :
          GetAllItems(items_db, None, None, min_price, max_price)
             = Returns("get_all_items", None, <<>>)
    /\ GetStatistics(users_db, items_db) =
          Returns("get_statistics", None,
                  [users_total |-> 0, items_total |-> 0,
                   total_inventory_value |-> 0, average_price |-> 0])

\* C15: after reset_database, whatever the state before it, both collections are
\* empty: every get_user / get_item returns NotFound, get_all_users and
\* get_all_items return the empty sequence and get_statistics reports 0 users,
\* 0 items, inventory value 0 and average price 0.
C15_ResetEmptiesBoth == [][reset_database => ReadsFindNothing']_vars

\* C15 witness: a user and an item were created and never deleted, and after a
\* reset neither collection holds a record.
C15_Witness ==
    /\ issued_users # <<>> /\ issued_items # <<>>
    /\ deleted_users = {} /\ deleted_items = {}
    /\ users_db = <<>> /\ items_db = <<>>
    /\ status_code = 200

\* C16: the two collections are independent: create_user, update_user and
\* delete_user leave items_db as it was (no step that changes items_db is a step
\* of one of them), create_item, update_item and delete_item leave users_db as it
\* was, and a step that changes both collections is a reset_database.
C16_CollectionsAreIndependent ==
    [][/\ items_db' # items_db =>
             /\ \A body \in SentUserBodies : ~create_user(body)
             /\ \A user_id \in PathIds :
                   /\ ~delete_user(user_id)
                   /\ \A body \in SentUserUpdateBodies : ~update_user(user_id, body)
       /\ users_db' # users_db =>
             /\ \A body \in SentItemBodies : ~create_item(body)
             /\ \A item_id \in PathIds :
                   /\ ~delete_item(item_id)
                   /\ \A body \in SentItemUpdateBodies : ~update_item(item_id, body)
       /\ (users_db' # users_db /\ items_db' # items_db) => reset_database]_vars

\* C16 witness: the only user was deleted while an item was stored, and the item
\* is still there as it was created.
C16_Witness ==
    /\ deleted_users # {}
    /\ users_db = <<>>
    /\ Len(items_db) = 1
    /\ LET n == Len(issued_users) + 1
       IN  items_db[1].val = CreateItem(<<>>, ItemA, n, n).resp.body
    /\ status_code = HTTP_204_NO_CONTENT

\* s occurs in email when both are taken without regard to case
MatchesEmail(user, s) ==
    /\ ~IsNone(user.email)
    /\ \E i \in 0..(Len(Val(user.email)) - Len(s)) :
          \A j \in 1..Len(s) : LowerChar(Val(user.email)[i + j]) = LowerChar(s[j])

\* C17: search_users_by_email(s) returns, in store order, all and only the
\* stored users whose email contains s as a substring when both are compared
\* without regard to case; no window is applied, so the result may hold every
\* stored user.
C17_SearchReturnsMatches ==
    \A q \in SearchQueries :
        LET r == SearchUsersByEmail(users_db, q)
            users == DictValues(users_db)
            Hit(user) == MatchesEmail(user, Val(q))
        IN  /\ r.status = 200
            /\ r.body = SelectSeq(users, Hit)
            /\ (\A i \in 1..Len(users) : Hit(users[i])) => r.body = users

\* every key of db maps to a record that carries the key as its id and a
\* created_at that is set; no key occurs twice
KeyIsId(db) ==
    /\ NoDuplicates(KeySeq(db))
    /\ \A i \in 1..Len(db) :
          /\ db[i].val.id = Some(db[i].key)
          /\ ~IsNone(db[i].val.created_at)

\* C19: in every reachable state every key of users_db and of items_db maps to a
\* record whose id is the key and whose created_at is not null, and every
\* accepted create and update, one whose body carries an id or a created_at
\* included, keeps it so.
C19_KeyIsRecordId ==
    /\ KeyIsId(users_db)
    /\ KeyIsId(items_db)
    /\ \A body \in ValidUserBodies \cup {UserWithId(id) : id \in PathIds} :
          KeyIsId(CreateUser(users_db, body, uuid4, Now).db)
    /\ \A body \in ValidItemBodies \cup {ItemWithId(id) : id \in PathIds} :
          KeyIsId(CreateItem(items_db, body, uuid4, Now).db)
    /\ \A id \in PathIds :
          /\ \A body \in ValidUserUpdateBodies \cup {UserUpdateWithId} :
                KeyIsId(UpdateUser(users_db, id, body).db)
          /\ \A body \in ValidItemUpdateBodies \cup {ItemUpdateWithId} :
                KeyIsId(UpdateItem(items_db, id, body).db)

\* C19 witness: an update whose body carried another id and a null created_at
\* has changed the email of the first user, which still carries its key as id
\* and the timestamp of its creation; an item is stored too.
C19_Witness ==
    /\ Len(users_db) = 1 /\ Len(items_db) = 1
    /\ users_db[1].val.email = UserUpdateWithId.email
    /\ users_db[1].val.id = Some(users_db[1].key)
    /\ users_db[1].val.id # UserUpdateWithId.id
    /\ ~IsNone(users_db[1].val.created_at)
    /\ items_db[1].val.id = Some(items_db[1].key)

\* the position in answers of a request that was handled
AnswerOf(req) == CHOOSE i \in 1..Len(answers) : answers[i].req = req
Handled(req) == \E i \in 1..Len(answers) : answers[i].req = req
\* the request was handled with the given status
AnsweredWith(req, status) == Handled(req) /\ answers[AnswerOf(req)].status = status

UpdateRequests == {req \in ConcurrentRequests : req.op = "update_user"}
DeleteRequests == {req \in ConcurrentRequests : req.op = "delete_user"}

\* the store a handler leaves, as a function of the store it finds
HandlerEffect(req, db) ==
    CASE req.op = "create_user" -> CreateUser(db, req.body, uuid4, Now).db
      [] req.op = "update_user" -> UpdateUser(db, req.id, req.body).db
      [] req.op = "delete_user" -> DeleteUser(db, req.id).db

\* every update that succeeded on a record that is still stored has its fields
\* in the record: no update is lost to another one
NoLostUpdate ==
    \A req \in UpdateRequests :
        (AnsweredWith(req, 200) /\ DictHas(users_db, req.id)) =>
            \A f \in DOMAIN req.body : DictGet(users_db, req.id)[f] = req.body[f]

\* once a delete of an id has succeeded the id is not stored, every update of it
\* that succeeded was handled before the delete, and every update of it handled
\* after the delete was answered NotFound
DeletedStaysDeleted ==
    \A del \in DeleteRequests :
        AnsweredWith(del, HTTP_204_NO_CONTENT) =>
            /\ ~DictHas(users_db, del.id)
            /\ \A req \in UpdateRequests :
                  (Handled(req) /\ req.id = del.id) =>
                      IF AnswerOf(req) < AnswerOf(del)
                      THEN answers[AnswerOf(req)].status \in {200, HTTP_404_NOT_FOUND}
                      ELSE answers[AnswerOf(req)].status = HTTP_404_NOT_FOUND

\* a step that changes the store is the whole run of the handler of one request
\* in flight, on the store as it was before the step
OneHandlerAtATime ==
    users_db' # users_db =>
        \E req \in inflight :
            /\ users_db' = HandlerEffect(req, users_db)
            /\ inflight' = inflight \ {req}
            /\ answers' = Append(answers, [req |-> req, status |-> status_code',
                                           with |-> inflight \ {req}])

\* C18: under every interleaving of requests in flight together each handler
\* runs as one step: no other handler runs between its check that the id is
\* stored and its write.  So two updates of a record that set different fields
\* both take effect, and an update in flight with a delete of the same id either
\* is handled before the delete or is answered NotFound: it never stores the
\* deleted record again.
C18_HandlersRunAtomically ==
    /\ [](NoLostUpdate /\ DeletedStaysDeleted)
    /\ [][OneHandlerAtATime]_vars

\* C18 witness: with the two other updates and the delete in flight, an update
\* of the first user succeeded; a second update succeeded with the delete and
\* the third update in flight; the delete succeeded, and then the third update
\* was answered NotFound and stored nothing.
C18_Witness ==
    /\ Len(answers) = 5
    /\ answers[1] = [req |-> CreateFirst, status |-> HTTP_201_CREATED, with |-> {}]
    /\ answers[2] = [req |-> UpdateEmail, status |-> 200,
                     with |-> {UpdateAge, DeleteFirst}]
    /\ answers[3] = [req |-> UpdateAge, status |-> 200,
                     with |-> {DeleteFirst, UpdateName}]
    /\ answers[4] = [req |-> DeleteFirst, status |-> HTTP_204_NO_CONTENT,
                     with |-> {UpdateName}]
    /\ answers[5] = [req |-> UpdateName, status |-> HTTP_404_NOT_FOUND, with |-> {}]
    /\ users_db = <<>>

\* p is an initial part of s
IsPrefix(p, s) == Len(p) <= Len(s) /\ \A i \in 1..Len(p) : p[i] = s[i]

\* the commands run, in order, and those of them that are not the status query
CommandsRun == [i \in 1..Len(ran) |-> ran[i].cmd]
CommandsRunButStatus ==
    LET NotStatus(cmd) == cmd # GitStatus
    IN  SelectSeq(CommandsRun, NotStatus)

HasRun(cmd) == \E i \in 1..Len(ran) : ran[i].cmd = cmd
Exited(n) == pc = "exit" /\ exit_status = Some(n)

\* add, commit and push run in this order, each at most once; the status query
\* runs at most once, right after a commit that returned non-zero
RunsInOrder ==
    /\ ran # <<>> => ~IsNone(commit_message) /\ Val(commit_message) # <<>>
    /\ ran # <<>> =>
          IsPrefix(CommandsRunButStatus, <<GitAdd, GitCommit(Val(commit_message)), GitPush>>)
    /\ \A i \in 1..Len(ran) :
          ran[i].cmd = GitStatus =>
              /\ i = 3
              /\ ran[2].cmd = GitCommit(Val(commit_message))
              /\ ran[2].returncode # Some(0)

\* an empty message ends the program with status 1 before any command runs
EmptyMessageExits ==
    (commit_message = Some(<<>>) /\ pc # "check_message") => (Exited(1) /\ ran = <<>>)

\* push runs only after add succeeded and commit was run, whatever commit returned
PushFollowsAddAndCommit ==
    HasRun(GitPush) =>
        /\ ran[1] = [cmd |-> GitAdd, returncode |-> Some(0)]
        /\ ran[2].cmd = GitCommit(Val(commit_message))
        /\ ran[Len(ran)].cmd = GitPush
        /\ Len(ran) > 2

\* the program does not end between commit and push
CommitDoesNotStop ==
    (pc = "exit" /\ \E i \in 1..Len(ran) : ran[i].cmd # GitAdd) => HasRun(GitPush)

\* an add or a push that fails is the last command, and the exit status is 1
FailureExits ==
    \A i \in 1..Len(ran) :
        (ran[i].cmd \in {GitAdd, GitPush} /\ ran[i].returncode # Some(0)) =>
            (i = Len(ran) /\ Exited(1))

\* the last line is printed only when push succeeded
DoneOnlyAfterPush ==
    (\E i \in 1..Len(printed) : printed[i] = "Done! Changes pushed successfully.") =>
        /\ ran[Len(ran)] = [cmd |-> GitPush, returncode |-> Some(0)]
        /\ printed[Len(printed)] = "Done! Changes pushed successfully."
        /\ Exited(0)

\* C20: in auto_push.main the commands git add, git commit and git push run in
\* this order, each at most once (git status --porcelain runs between commit and
\* push after a commit that returned non-zero); with an empty commit message the
\* program exits with status 1 before any command runs; push runs only after
\* add succeeded and commit was run, and a non-zero result of commit does not
\* stop the sequence; an add or a push that fails exits with status 1, and the
\* final success message is printed only when push succeeded.
C20_GitCommandsRunInOrder ==
    /\ RunsInOrder
    /\ EmptyMessageExits
    /\ PushFollowsAddAndCommit
    /\ CommitDoesNotStop
    /\ FailureExits
    /\ DoneOnlyAfterPush

\* C20 witness: add succeeded, commit returned 1, the status query ran, push
\* succeeded and the program ended with the success message.
C20_Witness ==
    /\ Len(ran) = 4
    /\ ran[1] = [cmd |-> GitAdd, returncode |-> Some(0)]
    /\ ran[2] = [cmd |-> GitCommit(<<"f", "i", "x">>), returncode |-> Some(1)]
    /\ ran[3].cmd = GitStatus
    /\ ran[4] = [cmd |-> GitPush, returncode |-> Some(0)]
    /\ printed[Len(printed)] = "Done! Changes pushed successfully."
    /\ Exited(0)

====
